---- MODULE Spec2Model ----
(***************************************************************************)
(* Model of the Intelligent Mail Barcode generator of                      *)
(* src/utils/imb_generator.py (class IMBGenerator).                        *)
(*                                                                         *)
(* Python strings are sequences of one-character strings; Python values   *)
(* that reach the generator (str, int, None) are tagged records, so that  *)
(* str(), truthiness, zfill(), isdigit(), replace() and int() are modelled *)
(* by what they do.  Python integers are unbounded: the tracking-code      *)
(* integer (up to 10^31) and the combined integer (up to 2^114) are        *)
(* sequences of decimal digits, most significant first; checksums and      *)
(* codewords are small and are plain integers.                             *)
(***************************************************************************)
EXTENDS Integers, Sequences, FiniteSets, TLC

VARIABLES
  self,          \* the generator's fields: barcode_id, service_type, mailer_id
  pc,            \* position of the generate_barcode invocation
  mailer_id,     \* argument of generate_barcode
  sequence_num,  \* argument of generate_barcode
  routing_code,  \* argument of generate_barcode
  errors,        \* local of generate_barcode: the validator's list
  tracking_code, \* local of generate_barcode
  crc,           \* local of generate_barcode
  codewords,     \* local of generate_barcode
  barcode,       \* local of generate_barcode
  result,        \* what the invocation returned or raised
  brc,           \* an invocation of build_routing_code: arguments and result
  inv,           \* concurrent invocations on one generator: each thread's frame
  history,       \* the calls and returns of the concurrent invocations so far
  ctc,           \* an invocation of codewords_to_characters: argument and result
  pair,          \* two invocations of generate_tracking_code side by side
  gs,            \* an invocation of generate_simple: arguments and outcome
  customer,      \* the Customer row: last_sequence_number
  jobs,          \* the Job rows, in order of creation
  loop,          \* process_file: the request being served and its locals
  mav            \* the MultiAPIValidator: its fields and the call in progress

vars == <<self, pc, mailer_id, sequence_num, routing_code, errors,
          tracking_code, crc, codewords, barcode, result>>

\* the variables that are no part of a generate_barcode invocation
others == <<brc, inv, history, ctc, pair, gs, customer, jobs, loop, mav>>

\* what each of the other specifications leaves alone
exceptRouting == <<vars, inv, history, ctc, pair, gs, customer, jobs, loop, mav>>
exceptConc == <<pc, mailer_id, sequence_num, routing_code, errors,
                tracking_code, crc, codewords, barcode, result,
                brc, ctc, pair, gs, customer, jobs, loop, mav>>
exceptChars == <<vars, brc, inv, history, pair, gs, customer, jobs, loop, mav>>
exceptPair == <<vars, brc, inv, history, ctc, gs, customer, jobs, loop, mav>>
exceptSimple == <<vars, brc, inv, history, ctc, pair, customer, jobs, loop, mav>>
exceptBatch == <<vars, brc, inv, history, ctc, pair, gs, mav>>
exceptValidator == <<vars, brc, inv, history, ctc, pair, gs, customer, jobs, loop>>

allVars == <<vars, others>>

----------------------------------------------------------------------------
(* Bounds of the model *)

\* call-argument mailer ids: digit strings of every length 5..MaxMailerLen
MaxMailerLen == 10
\* sequence numbers: digit strings of every length 5..MaxSeqLen
MaxSeqLen == 10
\* sequence numbers: the integers -1..MaxSeqNum
MaxSeqNum == 1
\* build_routing_code components: digit strings of every length
\* 1..MaxComponentLen
MaxComponentLen == 6

\* invocations of generate_barcode made on one shared generator
MaxInvocations == 3

\* length of the codeword lists given to codewords_to_characters alone
MaxCodewords == 11

\* rows of an uploaded file, and jobs run for one customer
MaxRows == 3
MaxJobs == 2

\* calls of validate_address on one MultiAPIValidator
MaxCalls == 3

----------------------------------------------------------------------------
(* Python values and the built-ins the generator uses *)

PyStr(s) == [t |-> "str", s |-> s]
PyInt(n) == [t |-> "int", n |-> n]
PyNone == [t |-> "NoneType"]

DigitSeq == <<"0", "1", "2", "3", "4", "5", "6", "7", "8", "9">>
DigitChars == {DigitSeq[i] : i \in 1..10}
DigitVal(c) == (CHOOSE i \in 1..10 : DigitSeq[i] = c) - 1

\* str(n) of a Python int
RECURSIVE DecStr(_)
DecStr(n) ==
  IF n < 0 THEN <<"-">> \o DecStr(-n)
  ELSE IF n < 10 THEN <<DigitSeq[n + 1]>>
  ELSE Append(DecStr(n \div 10), DigitSeq[(n % 10) + 1])

\* str(v)
Str(v) ==
  CASE v.t = "str" -> v.s
    [] v.t = "int" -> DecStr(v.n)
    [] v.t = "NoneType" -> <<"N", "o", "n", "e">>

\* bool(v), as in `if v`
Truthy(v) ==
  CASE v.t = "str" -> v.s # <<>>
    [] v.t = "int" -> v.n # 0
    [] v.t = "NoneType" -> FALSE

\* s.isdigit(): false on the empty string
IsDigit(s) == s # <<>> /\ \A i \in 1..Len(s) : s[i] \in DigitChars

Zeros(k) == [i \in 1..k |-> "0"]

\* s.zfill(w): zeros go after a leading sign
Zfill(s, w) ==
  IF Len(s) >= w THEN s
  ELSE IF s # <<>> /\ s[1] \in {"+", "-"}
       THEN <<s[1]>> \o Zeros(w - Len(s)) \o Tail(s)
       ELSE Zeros(w - Len(s)) \o s

\* s.replace('-', '')
StripHyphens(s) == SelectSeq(s, LAMBDA c : c # "-")

\* int(s) for a string whose first and last characters are digits, as every
\* tracking code built after validation is (barcode_id.isdigit() and a
\* routing field of digits): digits, with single underscores allowed between
\* digits; anything else raises ValueError.
IntOk(s) ==
  /\ s # <<>>
  /\ \A i \in 1..Len(s) : s[i] \in DigitChars \cup {"_"}
  /\ s[1] # "_" /\ s[Len(s)] # "_"
  /\ \A i \in 1..(Len(s) - 1) : ~(s[i] = "_" /\ s[i + 1] = "_")

IntDigits(s) ==
  LET d == SelectSeq(s, LAMBDA c : c # "_")
  IN [i \in 1..Len(d) |-> DigitVal(d[i])]

----------------------------------------------------------------------------
(* Unbounded non-negative integers as decimal digit sequences *)

IsZero(n) == \A i \in 1..Len(n) : n[i] = 0

\* n & 1
LowBit(n) == IF n = <<>> THEN 0 ELSE n[Len(n)] % 2

\* n >> 1
Shr1(n) ==
  SubSeq([i \in 1..Len(n) |->
            ((IF i > 1 THEN (n[i - 1] % 2) * 10 ELSE 0) + n[i]) \div 2],
         1, Len(n))

\* n * m + a, for small m and a
RECURSIVE MulAddRec(_, _)
MulAddRec(st, m) ==
  IF st.i = 0
  THEN IF st.carry = 0 THEN st.out
       ELSE MulAddRec([n |-> st.n, i |-> 0, carry |-> st.carry \div 10,
                       out |-> <<st.carry % 10>> \o st.out], m)
  ELSE LET v == st.n[st.i] * m + st.carry
       IN MulAddRec([n |-> st.n, i |-> st.i - 1, carry |-> v \div 10,
                     out |-> <<v % 10>> \o st.out], m)

MulAdd(n, m, a) == MulAddRec([n |-> n, i |-> Len(n), carry |-> a, out |-> <<>>], m)

\* divmod(n, d) for small d, by long division
RECURSIVE DivModRec(_, _, _)
DivModRec(st, d, stop) ==
  IF st.i > stop THEN st
  ELSE LET v == st.r * 10 + st.n[st.i]
       IN DivModRec([n |-> st.n, i |-> st.i + 1, r |-> v % d,
                     q |-> Append(st.q, v \div d)], d, stop)

\* the long division, evaluated eight digits at a time
RECURSIVE DivModBlocks(_, _)
DivModBlocks(st, d) ==
  IF st.i > Len(st.n) THEN [q |-> st.q, r |-> st.r]
  ELSE DivModBlocks(DivModRec(st, d, IF st.i + 7 < Len(st.n) THEN st.i + 7
                                     ELSE Len(st.n)), d)

DivMod(n, d) == DivModBlocks([n |-> n, i |-> 1, r |-> 0, q |-> <<>>], d)

\* a ^ b on small non-negative integers
RECURSIVE Xor(_, _)
Xor(a, b) ==
  IF a = 0 THEN b
  ELSE IF b = 0 THEN a
  ELSE 2 * Xor(a \div 2, b \div 2) + ((a + b) % 2)

----------------------------------------------------------------------------
(* class IMBGenerator *)

CRC_POLYNOMIAL == 3893   \* 0x0F35
CRC_INIT == 2047         \* 0x7FF
CRC_ITERATIONS == 102
CRC_SHIFT == 2048
CODEWORD_BASE == 1365
NUM_CODEWORDS == 10
CHARS_PER_CODEWORD == 7
BARCODE_LEN == 65
TRACKING_LEN == 15       \* mailer id and sequence number together

BARCODE_CHARS == <<"T", "D", "A", "F">>   \* values 0..3

valid_stids ==
  << <<"0", "4", "0">>, <<"2", "4", "0">>, <<"2", "7", "1">>,
     <<"3", "4", "0">>, <<"4", "4", "0">>, <<"5", "4", "0">> >>

InList(x, l) == \E i \in 1..Len(l) : l[i] = x

\* __init__
IMBGenerator(b, st, m) ==
  [barcode_id |-> Zfill(Str(b), 2),
   service_type |-> Zfill(Str(st), 3),
   mailer_id |-> IF Truthy(m) THEN PyStr(Zfill(Str(m), 6)) ELSE PyNone]

\* an error message: the f-string's text and its interpolated values
Err(msg, args) == [msg |-> msg, args |-> args]

\* validate_inputs, check by check; each yields the messages it appends
CheckBarcodeId(g) ==
  IF ~IsDigit(g.barcode_id) \/ Len(g.barcode_id) # 2
  THEN <<Err("Barcode ID must be 2 digits, got: {}", <<g.barcode_id>>)>>
  ELSE <<>>

\* variant: any 3-digit service type passes
CheckServiceTypeAnyDigits(g) ==
  IF ~(IsDigit(g.service_type) /\ Len(g.service_type) = 3)
  THEN <<Err("Service Type must be one of {valid_stids}, got: {}",
             <<g.service_type>>)>>
  ELSE <<>>

CheckServiceType(g) ==
  IF ~InList(g.service_type, valid_stids)
  THEN <<Err("Service Type must be one of {valid_stids}, got: {}",
             <<g.service_type>>)>>
  ELSE <<>>

\* variant: every length from 6 to 9 passes
CheckMailerLenRange(m) ==
  IF Len(Str(m)) \notin 6..9
  THEN <<Err("Mailer ID must be 6 or 9 digits, got: {} digits",
             <<DecStr(Len(Str(m)))>>)>>
  ELSE <<>>

CheckMailerLen(m) ==
  IF Len(Str(m)) \notin {6, 9}
  THEN <<Err("Mailer ID must be 6 or 9 digits, got: {} digits",
             <<DecStr(Len(Str(m)))>>)>>
  ELSE <<>>

CheckMailerDigits(m) ==
  IF ~IsDigit(Str(m))
  THEN <<Err("Mailer ID must contain only digits", <<>>)>>
  ELSE <<>>

\* variant: the comparison is >= instead of >
CheckSequenceOffByOne(m, s) ==
  LET expected_seq_len == TRACKING_LEN - Len(Str(m))
  IN IF Len(Str(s)) >= expected_seq_len
     THEN <<Err("Sequence number too large. Max {} digits for {}-digit Mailer ID",
                <<DecStr(expected_seq_len), DecStr(Len(Str(m)))>>)>>
     ELSE <<>>

CheckSequence(m, s) ==
  LET expected_seq_len == TRACKING_LEN - Len(Str(m))
  IN IF Len(Str(s)) > expected_seq_len
     THEN <<Err("Sequence number too large. Max {} digits for {}-digit Mailer ID",
                <<DecStr(expected_seq_len), DecStr(Len(Str(m)))>>)>>
     ELSE <<>>

\* variant: the length is taken before the hyphens are removed
CheckRoutingLenUnstripped(r) ==
  IF Len(Str(r)) \notin {0, 5, 9, 11}
  THEN <<Err("Routing code must be 0, 5, 9, or 11 digits, got: {} digits",
             <<DecStr(Len(Str(r)))>>)>>
  ELSE <<>>

CheckRoutingLen(r) ==
  LET routing_str == StripHyphens(Str(r))
  IN IF Len(routing_str) \notin {0, 5, 9, 11}
     THEN <<Err("Routing code must be 0, 5, 9, or 11 digits, got: {} digits",
                <<DecStr(Len(routing_str))>>)>>
     ELSE <<>>

CheckRoutingDigits(r) ==
  LET routing_str == StripHyphens(Str(r))
  IN IF routing_str # <<>> /\ ~IsDigit(routing_str)
     THEN <<Err("Routing code must contain only digits", <<>>)>>
     ELSE <<>>

\* variant: the validator stops at the first check that fails
validate_inputs_short_circuit(g, m, s, r) ==
  LET checks == <<CheckBarcodeId(g), CheckServiceType(g), CheckMailerLen(m),
                  CheckMailerDigits(m), CheckSequence(m, s),
                  CheckRoutingLen(r), CheckRoutingDigits(r)>>
      failed == {i \in 1..7 : checks[i] # <<>>}
  IN IF failed = {} THEN <<>>
     ELSE checks[CHOOSE i \in failed : \A j \in failed : i <= j]

validate_inputs(g, m, s, r) ==
  CheckBarcodeId(g) \o CheckServiceType(g) \o CheckMailerLen(m)
    \o CheckMailerDigits(m) \o CheckSequence(m, s) \o CheckRoutingLen(r)
    \o CheckRoutingDigits(r)

\* variant: the mailer id is always padded to 9 digits
PaddedMailerAlways9(m) == Zfill(Str(m), 9)

\* generate_tracking_code
PaddedMailer(m) ==
  IF Len(Str(m)) <= 6 THEN Zfill(Str(m), 6) ELSE Zfill(Str(m), 9)

\* variant: the sequence number is always padded to 9 digits
PaddedSequenceFixed9(m, s) == Zfill(Str(s), 9)

PaddedSequence(m, s) == Zfill(Str(s), TRACKING_LEN - Len(PaddedMailer(m)))

PaddedRouting(r) ==
  IF Truthy(r) THEN Zfill(StripHyphens(Str(r)), 11) ELSE Zeros(11)

generate_tracking_code(g, m, s, r) ==
  g.barcode_id \o g.service_type \o PaddedMailer(m) \o PaddedSequence(m, s)
    \o PaddedRouting(r)

\* variant: the polynomial is XORed in before the shift
CrcStepXorBeforeShift(st) ==
  LET c1 == IF LowBit(st.tracking_int) = 1 THEN Xor(st.crc, CRC_INIT) ELSE st.crc
      c2 == IF c1 % 2 = 1 THEN Xor(c1, CRC_POLYNOMIAL) \div 2 ELSE c1 \div 2
  IN [i |-> st.i + 1, crc |-> c2, tracking_int |-> Shr1(st.tracking_int)]

\* calculate_crc: one iteration of the loop
CrcStep(st) ==
  LET c1 == IF LowBit(st.tracking_int) = 1 THEN Xor(st.crc, CRC_INIT) ELSE st.crc
      c2 == IF c1 % 2 = 1 THEN Xor(c1 \div 2, CRC_POLYNOMIAL) ELSE c1 \div 2
  IN [i |-> st.i + 1, crc |-> c2, tracking_int |-> Shr1(st.tracking_int)]

\* calculate_crc: the iterations from st.i up to (not including) stop
RECURSIVE CrcLoop(_, _)
CrcLoop(st, stop) == IF st.i = stop THEN st ELSE CrcLoop(CrcStep(st), stop)

\* calculate_crc: the whole loop, evaluated ten iterations at a time
RECURSIVE CrcBlocks(_)
CrcBlocks(st) ==
  IF st.i = CRC_ITERATIONS THEN st
  ELSE CrcBlocks(CrcLoop(st, IF st.i + 10 < CRC_ITERATIONS THEN st.i + 10
                             ELSE CRC_ITERATIONS))

\* calculate_crc on the integer int(tracking_code): the register and the
\* shrinking integer after the loop
calculate_crc_state(n) ==
  CrcBlocks([i |-> 0, crc |-> CRC_INIT, tracking_int |-> n])

calculate_crc(n) == calculate_crc_state(n).crc

\* variant: the codewords are produced most significant first
RECURSIVE EncodeLoopMsbFirst(_)
EncodeLoopMsbFirst(st) ==
  IF st.i = NUM_CODEWORDS THEN st
  ELSE LET dm == DivMod(st.combined, CODEWORD_BASE)
       IN EncodeLoopMsbFirst([i |-> st.i + 1, combined |-> dm.q,
                              codewords |-> <<dm.r>> \o st.codewords])

\* encode_to_codewords on the integer int(tracking_code)
RECURSIVE EncodeLoop(_)
EncodeLoop(st) ==
  IF st.i = NUM_CODEWORDS THEN st
  ELSE LET dm == DivMod(st.combined, CODEWORD_BASE)
       IN EncodeLoop([i |-> st.i + 1, combined |-> dm.q,
                      codewords |-> Append(st.codewords, dm.r)])

Combined(n, c) == MulAdd(n, CRC_SHIFT, c)

encode_state(n, c) ==
  EncodeLoop([i |-> 0, combined |-> Combined(n, c), codewords |-> <<>>])

encode_to_codewords(n, c) == encode_state(n, c).codewords

\* _codeword_to_chars
RECURSIVE CodewordChars(_, _)
CodewordChars(value, k) ==
  IF k = 0 THEN <<>>
  ELSE <<BARCODE_CHARS[(value % 4) + 1]>> \o CodewordChars(value \div 4, k - 1)

\* variant: the base-4 digits come out most significant first
codeword_to_chars_msb_first(codeword) ==
  LET chars == CodewordChars(codeword, CHARS_PER_CODEWORD)
  IN [i \in 1..Len(chars) |-> chars[Len(chars) + 1 - i]]

\* variant: six symbols per codeword
codeword_to_chars_six(codeword) == CodewordChars(codeword, 6)

codeword_to_chars(codeword) == CodewordChars(codeword, CHARS_PER_CODEWORD)

\* codewords_to_characters
RECURSIVE Characters(_)
Characters(cws) ==
  IF cws = <<>> THEN <<>>
  ELSE codeword_to_chars(Head(cws)) \o Characters(Tail(cws))

\* variant: the characters are not trimmed to 65
codewords_to_characters_untrimmed(cws) ==
  LET characters == Characters(cws)
  IN IF Len(characters) < BARCODE_LEN
     THEN characters \o [i \in 1..(BARCODE_LEN - Len(characters)) |-> "T"]
     ELSE characters

\* variant: a short barcode is not padded
codewords_to_characters_unpadded(cws) ==
  LET characters == Characters(cws)
  IN SubSeq(characters, 1,
            IF Len(characters) < BARCODE_LEN THEN Len(characters)
            ELSE BARCODE_LEN)

codewords_to_characters(cws) ==
  LET characters == Characters(cws)
      trimmed == SubSeq(characters, 1,
                        IF Len(characters) < BARCODE_LEN THEN Len(characters)
                        ELSE BARCODE_LEN)
  IN IF Len(trimmed) < BARCODE_LEN
     THEN trimmed \o [i \in 1..(BARCODE_LEN - Len(trimmed)) |-> "T"]
     ELSE trimmed

----------------------------------------------------------------------------
(* Inputs *)

Pattern == <<"1", "2", "3", "4", "5", "6", "7", "8", "9", "0",
             "1", "2", "3", "4", "5", "6", "7", "8", "9", "0">>
DigitStr(k) == SubSeq(Pattern, 1, k)

BarcodeIdArgs ==
  {PyStr(<<"0", "0">>), PyStr(<<"9", "9">>), PyStr(<<"1", "a">>),
   PyStr(<<"1", "2", "3">>)}

ServiceTypeArgs ==
  {PyStr(valid_stids[i]) : i \in 1..Len(valid_stids)}
    \cup {PyStr(<<"9", "9", "9">>), PyInt(40)}

CtorMailerIdArgs == {PyStr(DigitStr(6))}

MailerIdArgs ==
  {PyStr(DigitStr(k)) : k \in 5..MaxMailerLen}
    \cup {PyStr(<<>>), PyStr(<<"1", "2", "3", "4", "5", "a">>),
          PyStr(<<"1", "2", "3", "4", "5", "6", "7", "8", "9", "a">>),
          PyInt(123456)}

SequenceArgs ==
  {PyStr(DigitStr(k)) : k \in 5..MaxSeqLen}
    \cup {PyInt(n) : n \in -1..MaxSeqNum}
    \cup {PyStr(<<>>), PyStr(<<"a", "b", "c">>), PyStr(<<"_", "1">>)}

RoutingArgs ==
  {PyStr(<<>>), PyStr(DigitStr(4)),
   PyStr(<<"9", "0", "2", "1", "0">>),
   PyStr(<<"9", "0", "2", "1", "0", "5", "4", "3", "2">>),
   PyStr(<<"9", "0", "2", "1", "0", "5", "4", "3", "2", "0", "1">>),
   PyStr(<<"9", "0", "2", "1", "0", "-", "5", "4", "3", "2">>),
   PyStr(<<"-">>),
   PyStr(<<"9", "0", "2", "1", "a">>),
   PyStr(<<"9", "0", "2", "a">>),
   PyNone, PyInt(0)}

----------------------------------------------------------------------------
(* generate_barcode as a state machine *)

Threads == {"t1", "t2"}

\* the frame of a thread that is not inside generate_barcode
IdleFrame ==
  [pc |-> "idle", mailer_id |-> PyNone, sequence_num |-> PyNone,
   routing_code |-> PyNone, errors |-> <<>>, tracking_code |-> PyNone,
   crc |-> PyNone, codewords |-> <<>>, barcode |-> PyNone]

\* nothing but the generator exists yet
OthersIdle ==
  /\ brc = [pc |-> "idle"]
  /\ inv = [t \in Threads |-> IdleFrame]
  /\ history = <<>>
  /\ ctc = [pc |-> "idle"]
  /\ pair = [pc |-> "idle"]
  /\ gs = [pc |-> "idle"]
  /\ customer = [last_sequence_number |-> 0]
  /\ jobs = <<>>
  /\ loop = [pc |-> "idle"]
  /\ mav = [pc |-> "new"]

\* generator g is constructed and no invocation has started
GeneratorIdle(g) ==
  /\ self = g
  /\ pc = "idle"
  /\ mailer_id = PyNone
  /\ sequence_num = PyNone
  /\ routing_code = PyNone
  /\ errors = <<>>
  /\ tracking_code = PyNone
  /\ crc = PyNone
  /\ codewords = <<>>
  /\ barcode = PyNone
  /\ result = PyNone

Generators ==
  {IMBGenerator(b, st, m) :
     b \in BarcodeIdArgs, st \in ServiceTypeArgs, m \in CtorMailerIdArgs}

Init ==
  /\ OthersIdle
  /\ \E g \in Generators : GeneratorIdle(g)

\* generate_barcode(mailer_id, sequence_num, routing_code) is entered
Call ==
  /\ pc = "idle"
  /\ \E m \in MailerIdArgs, s \in SequenceArgs, r \in RoutingArgs :
       /\ mailer_id' = m
       /\ sequence_num' = s
       /\ routing_code' = r
  /\ pc' = "validate"
  /\ UNCHANGED <<self, errors, tracking_code, crc, codewords, barcode, result>>
  /\ UNCHANGED others

\* errors = self.validate_inputs(...)
Validate ==
  /\ pc = "validate"
  /\ errors' = validate_inputs(self, mailer_id, sequence_num, routing_code)
  /\ pc' = "validated"
  /\ UNCHANGED <<self, mailer_id, sequence_num, routing_code, tracking_code,
                 crc, codewords, barcode, result>>
  /\ UNCHANGED others

\* variant: the invalid result carries a tracking code
ReturnInvalidPartial ==
  /\ pc = "validated"
  /\ errors # <<>>
  /\ result' = [t |-> "dict", valid |-> FALSE, errors |-> errors,
                tracking_code |->
                  PyStr(generate_tracking_code(self, mailer_id, sequence_num,
                                               routing_code)),
                barcode |-> PyNone, crc |-> PyNone]
  /\ pc' = "done"
  /\ UNCHANGED <<self, mailer_id, sequence_num, routing_code, errors,
                 tracking_code, crc, codewords, barcode>>
  /\ UNCHANGED others

\* if errors: return {valid: False, ...}
ReturnInvalid ==
  /\ pc = "validated"
  /\ errors # <<>>
  /\ result' = [t |-> "dict", valid |-> FALSE, errors |-> errors,
                tracking_code |-> PyNone, barcode |-> PyNone, crc |-> PyNone]
  /\ pc' = "done"
  /\ UNCHANGED <<self, mailer_id, sequence_num, routing_code, errors,
                 tracking_code, crc, codewords, barcode>>
  /\ UNCHANGED others

\* tracking_code = self.generate_tracking_code(...)
GenerateTrackingCode ==
  /\ pc = "validated"
  /\ errors = <<>>
  /\ tracking_code' =
       PyStr(generate_tracking_code(self, mailer_id, sequence_num, routing_code))
  /\ pc' = "tracked"
  /\ UNCHANGED <<self, mailer_id, sequence_num, routing_code, errors, crc,
                 codewords, barcode, result>>
  /\ UNCHANGED others

\* crc = self.calculate_crc(tracking_code); int(tracking_code) may raise
CalculateCrc ==
  /\ pc = "tracked"
  /\ IF IntOk(tracking_code.s)
     THEN /\ crc' = PyInt(calculate_crc(IntDigits(tracking_code.s)))
          /\ pc' = "crc"
          /\ UNCHANGED result
     ELSE /\ result' = [t |-> "raise", exc |-> "ValueError"]
          /\ pc' = "raised"
          /\ UNCHANGED crc
  /\ UNCHANGED <<self, mailer_id, sequence_num, routing_code, errors,
                 tracking_code, codewords, barcode>>
  /\ UNCHANGED others

\* codewords = self.encode_to_codewords(tracking_code, crc)
EncodeToCodewords ==
  /\ pc = "crc"
  /\ codewords' = encode_to_codewords(IntDigits(tracking_code.s), crc.n)
  /\ pc' = "encoded"
  /\ UNCHANGED <<self, mailer_id, sequence_num, routing_code, errors,
                 tracking_code, crc, barcode, result>>
  /\ UNCHANGED others

\* barcode = self.codewords_to_characters(codewords)
CodewordsToCharacters ==
  /\ pc = "encoded"
  /\ barcode' = PyStr(codewords_to_characters(codewords))
  /\ pc' = "mapped"
  /\ UNCHANGED <<self, mailer_id, sequence_num, routing_code, errors,
                 tracking_code, crc, codewords, result>>
  /\ UNCHANGED others

\* return {valid: True, ...}
ReturnValid ==
  /\ pc = "mapped"
  /\ result' = [t |-> "dict", valid |-> TRUE, errors |-> <<>>,
                tracking_code |-> tracking_code, barcode |-> barcode,
                crc |-> crc]
  /\ pc' = "done"
  /\ UNCHANGED <<self, mailer_id, sequence_num, routing_code, errors,
                 tracking_code, crc, codewords, barcode>>
  /\ UNCHANGED others

Next ==
  \/ Call
  \/ Validate
  \/ ReturnInvalid
  \/ GenerateTrackingCode
  \/ CalculateCrc
  \/ EncodeToCodewords
  \/ CodewordsToCharacters
  \/ ReturnValid

Spec == Init /\ [][Next]_allVars

----------------------------------------------------------------------------
(* build_routing_code *)

\* variant: the delivery point is not padded
build_routing_code_dp_unpadded(zip5, zip4, delivery_point) ==
  (IF Truthy(zip5) THEN Zfill(Str(zip5), 5) ELSE Zeros(5))
    \o (IF Truthy(zip4) THEN Zfill(Str(zip4), 4) ELSE Zeros(4))
    \o (IF Truthy(delivery_point) THEN Str(delivery_point) ELSE Zeros(2))

build_routing_code(zip5, zip4, delivery_point) ==
  LET zip5_str == IF Truthy(zip5) THEN Zfill(Str(zip5), 5) ELSE Zeros(5)
      zip4_str == IF Truthy(zip4) THEN Zfill(Str(zip4), 4) ELSE Zeros(4)
      dp_str == IF Truthy(delivery_point) THEN Zfill(Str(delivery_point), 2)
                ELSE Zeros(2)
  IN zip5_str \o zip4_str \o dp_str

\* the components: absent, empty, the integers 0 and 7, and digit strings of
\* every length 1..MaxComponentLen
ComponentArgs ==
  {PyNone, PyStr(<<>>), PyInt(0), PyInt(7)}
    \cup {PyStr(DigitStr(k)) : k \in 1..MaxComponentLen}

Zip5Args == ComponentArgs \cup {PyStr(<<"9", "0", "2", "1", "0">>)}
Zip4Args == ComponentArgs \cup {PyStr(<<"5", "4", "3", "2">>)}
DeliveryPointArgs == ComponentArgs \cup {PyStr(<<"0", "1">>)}

DefaultGenerator == IMBGenerator(PyStr(<<"0", "0">>), PyStr(<<"0", "4", "0">>), PyNone)

InitRouting ==
  /\ OthersIdle
  /\ GeneratorIdle(DefaultGenerator)

\* build_routing_code(zip5, zip4, delivery_point) is called and returns
BuildRoutingCode ==
  /\ brc.pc = "idle"
  /\ \E z5 \in Zip5Args, z4 \in Zip4Args, dp \in DeliveryPointArgs :
       brc' = [pc |-> "done", zip5 |-> z5, zip4 |-> z4, delivery_point |-> dp,
               result |-> build_routing_code(z5, z4, dp)]
  /\ UNCHANGED exceptRouting

NextRouting == BuildRoutingCode

SpecRouting == InitRouting /\ [][NextRouting]_allVars

----------------------------------------------------------------------------
(* generate_barcode called from several threads on one generator *)

\* generate_barcode run alone on generator g: what it returns or raises
generate_barcode(g, m, s, r) ==
  LET errs == validate_inputs(g, m, s, r)
      tc == generate_tracking_code(g, m, s, r)
      c == calculate_crc(IntDigits(tc))
  IN IF errs # <<>>
     THEN [t |-> "dict", valid |-> FALSE, errors |-> errs,
           tracking_code |-> PyNone, barcode |-> PyNone, crc |-> PyNone]
     ELSE IF ~IntOk(tc)
     THEN [t |-> "raise", exc |-> "ValueError"]
     ELSE [t |-> "dict", valid |-> TRUE, errors |-> <<>>,
           tracking_code |-> PyStr(tc),
           crc |-> PyInt(c),
           barcode |->
             PyStr(codewords_to_characters(
                     encode_to_codewords(IntDigits(tc), c)))]

\* the generators and arguments of the concurrent invocations: a valid and an
\* invalid configuration; an accepted call, a rejected one and one that raises
ConcGenerators ==
  {IMBGenerator(PyStr(<<"0", "0">>), st, PyNone) :
     st \in {PyStr(<<"0", "4", "0">>), PyStr(<<"9", "9", "9">>)}}

ConcArgs ==
  LET routing == PyStr(<<"9", "0", "2", "1", "0", "5", "4", "3", "2", "0", "1">>)
  IN {[mailer_id |-> PyStr(<<"1", "2", "3", "4", "5", "6">>),
       sequence_num |-> PyInt(1), routing_code |-> routing],
      [mailer_id |-> PyStr(<<"1", "2", "3", "4", "5">>),
       sequence_num |-> PyInt(1), routing_code |-> routing],
      [mailer_id |-> PyStr(<<"1", "2", "3", "4", "5", "6">>),
       sequence_num |-> PyInt(-1), routing_code |-> routing]}

InitConc ==
  /\ OthersIdle
  /\ \E g \in ConcGenerators : GeneratorIdle(g)

\* the calls made so far
Calls == {i \in 1..Len(history) : history[i].kind = "call"}

\* the frame of thread t becomes f; nothing else that is shared changes
Frame(t, f) ==
  /\ inv' = [inv EXCEPT ![t] = f]
  /\ UNCHANGED exceptConc

\* thread t returns (or raises) outcome to its caller and leaves the method
Return(t, outcome) ==
  /\ history' = Append(history,
                       [kind |-> "return", thread |-> t,
                        mailer_id |-> inv[t].mailer_id,
                        sequence_num |-> inv[t].sequence_num,
                        routing_code |-> inv[t].routing_code,
                        outcome |-> outcome])
  /\ Frame(t, IdleFrame)

\* variant: the generator remembers the mailer id of the last call
ConcCallStoresMailerId(t) ==
  /\ inv[t].pc = "idle"
  /\ Cardinality(Calls) < MaxInvocations
  /\ \E a \in ConcArgs :
       /\ Frame(t, [IdleFrame EXCEPT !.pc = "validate",
                                     !.mailer_id = a.mailer_id,
                                     !.sequence_num = a.sequence_num,
                                     !.routing_code = a.routing_code])
       /\ history' = Append(history,
                            [kind |-> "call", thread |-> t,
                             mailer_id |-> a.mailer_id,
                             sequence_num |-> a.sequence_num,
                             routing_code |-> a.routing_code])
       /\ self' = [self EXCEPT !.mailer_id = a.mailer_id]

\* thread t enters generate_barcode(mailer_id, sequence_num, routing_code)
ConcCall(t) ==
  /\ inv[t].pc = "idle"
  /\ Cardinality(Calls) < MaxInvocations
  /\ \E a \in ConcArgs :
       /\ Frame(t, [IdleFrame EXCEPT !.pc = "validate",
                                     !.mailer_id = a.mailer_id,
                                     !.sequence_num = a.sequence_num,
                                     !.routing_code = a.routing_code])
       /\ history' = Append(history,
                            [kind |-> "call", thread |-> t,
                             mailer_id |-> a.mailer_id,
                             sequence_num |-> a.sequence_num,
                             routing_code |-> a.routing_code])
  /\ self' = self

\* variant: a failed validation puts the default service type back
ConcValidateResetsServiceType(t) ==
  /\ inv[t].pc = "validate"
  /\ LET errs == validate_inputs(self, inv[t].mailer_id, inv[t].sequence_num,
                                 inv[t].routing_code)
     IN /\ Frame(t, [inv[t] EXCEPT !.pc = "validated", !.errors = errs])
        /\ self' = IF errs # <<>>
                   THEN [self EXCEPT !.service_type = <<"0", "4", "0">>]
                   ELSE self
  /\ UNCHANGED history

\* errors = self.validate_inputs(...)
ConcValidate(t) ==
  /\ inv[t].pc = "validate"
  /\ Frame(t, [inv[t] EXCEPT
                 !.pc = "validated",
                 !.errors = validate_inputs(self, inv[t].mailer_id,
                                            inv[t].sequence_num,
                                            inv[t].routing_code)])
  /\ UNCHANGED <<self, history>>

\* if errors: return {valid: False, ...}
ConcReturnInvalid(t) ==
  /\ inv[t].pc = "validated"
  /\ inv[t].errors # <<>>
  /\ Return(t, [t |-> "dict", valid |-> FALSE, errors |-> inv[t].errors,
                tracking_code |-> PyNone, barcode |-> PyNone, crc |-> PyNone])
  /\ self' = self

\* tracking_code = self.generate_tracking_code(...)
ConcGenerateTrackingCode(t) ==
  /\ inv[t].pc = "validated"
  /\ inv[t].errors = <<>>
  /\ Frame(t, [inv[t] EXCEPT
                 !.pc = "tracked",
                 !.tracking_code =
                    PyStr(generate_tracking_code(self, inv[t].mailer_id,
                                                 inv[t].sequence_num,
                                                 inv[t].routing_code))])
  /\ UNCHANGED <<self, history>>

\* crc = self.calculate_crc(tracking_code); int(tracking_code) may raise
ConcCalculateCrc(t) ==
  /\ inv[t].pc = "tracked"
  /\ IF IntOk(inv[t].tracking_code.s)
     THEN /\ Frame(t, [inv[t] EXCEPT
                         !.pc = "crc",
                         !.crc = PyInt(calculate_crc(
                                         IntDigits(inv[t].tracking_code.s)))])
          /\ UNCHANGED history
     ELSE Return(t, [t |-> "raise", exc |-> "ValueError"])
  /\ self' = self

\* codewords = self.encode_to_codewords(tracking_code, crc)
ConcEncodeToCodewords(t) ==
  /\ inv[t].pc = "crc"
  /\ Frame(t, [inv[t] EXCEPT
                 !.pc = "encoded",
                 !.codewords =
                    encode_to_codewords(IntDigits(inv[t].tracking_code.s),
                                        inv[t].crc.n)])
  /\ UNCHANGED <<self, history>>

\* barcode = self.codewords_to_characters(codewords)
ConcCodewordsToCharacters(t) ==
  /\ inv[t].pc = "encoded"
  /\ Frame(t, [inv[t] EXCEPT
                 !.pc = "mapped",
                 !.barcode = PyStr(codewords_to_characters(inv[t].codewords))])
  /\ UNCHANGED <<self, history>>

\* return {valid: True, ...}
ConcReturnValid(t) ==
  /\ inv[t].pc = "mapped"
  /\ Return(t, [t |-> "dict", valid |-> TRUE, errors |-> <<>>,
                tracking_code |-> inv[t].tracking_code,
                barcode |-> inv[t].barcode, crc |-> inv[t].crc])
  /\ self' = self

NextConc ==
  \/ \E t \in Threads : ConcCall(t)
  \/ \E t \in Threads : ConcValidate(t)
  \/ \E t \in Threads : ConcReturnInvalid(t)
  \/ \E t \in Threads : ConcGenerateTrackingCode(t)
  \/ \E t \in Threads : ConcCalculateCrc(t)
  \/ \E t \in Threads : ConcEncodeToCodewords(t)
  \/ \E t \in Threads : ConcCodewordsToCharacters(t)
  \/ \E t \in Threads : ConcReturnValid(t)

SpecConc == InitConc /\ [][NextConc]_allVars

----------------------------------------------------------------------------
(* codewords_to_characters called on its own *)

\* the codewords the lists are made of
CodewordArgs == {27, 1364}

\* every list of 0..MaxCodewords codewords
CodewordListArgs ==
  UNION {[1..n -> CodewordArgs] : n \in 0..MaxCodewords}

InitChars ==
  /\ OthersIdle
  /\ \E g \in {DefaultGenerator} : GeneratorIdle(g)

CodewordsToCharactersAlone ==
  /\ ctc.pc = "idle"
  /\ \E cws \in CodewordListArgs :
       ctc' = [pc |-> "done", codewords |-> cws,
               result |-> codewords_to_characters(cws)]
  /\ UNCHANGED exceptChars

NextChars == CodewordsToCharactersAlone

SpecChars == InitChars /\ [][NextChars]_allVars

----------------------------------------------------------------------------
(* generate_tracking_code on two inputs *)

\* mailer ids of both widths, one a prefix of the other
PairMailerIdArgs ==
  {PyStr(<<"1", "2", "3", "4", "5", "6">>),
   PyStr(<<"6", "5", "4", "3", "2", "1">>),
   PyStr(<<"1", "2", "3", "4", "5", "6", "7", "8", "9">>),
   PyStr(<<"1", "2", "3", "4", "5", "6", "0", "0", "0">>),
   PyInt(123456)}

\* sequence numbers as integers and as decimal strings, of both widths
PairSequenceArgs ==
  {PyInt(0), PyInt(1), PyStr(<<"1">>),
   PyStr(<<"0", "0", "0", "0", "0", "1">>),
   PyInt(789000), PyInt(789000001), PyInt(1000000)}

PairRoutingArgs ==
  {PyStr(<<>>), PyStr(<<"9", "0", "2", "1", "0">>)}

\* one input of the pair: its arguments, the validator's list, the code built
TrackingCodeOf(g, m, s, r) ==
  [mailer_id |-> m, sequence_num |-> s,
   errors |-> validate_inputs(g, m, s, r),
   tracking_code |-> generate_tracking_code(g, m, s, r)]

InitPair ==
  /\ OthersIdle
  /\ \E g \in {DefaultGenerator} : GeneratorIdle(g)

BuildPair ==
  /\ pair.pc = "idle"
  /\ \E r \in PairRoutingArgs :
     \E m1 \in PairMailerIdArgs, s1 \in PairSequenceArgs :
     \E m2 \in PairMailerIdArgs, s2 \in PairSequenceArgs :
       pair' = [pc |-> "done", routing_code |-> r,
                a |-> TrackingCodeOf(self, m1, s1, r),
                b |-> TrackingCodeOf(self, m2, s2, r)]
  /\ UNCHANGED exceptPair

NextPair == BuildPair

SpecPair == InitPair /\ [][NextPair]_allVars

----------------------------------------------------------------------------
(* generate_simple *)

\* ', '.join(l): the elements with the separator between them
RECURSIVE Join(_, _)
Join(sep, l) ==
  IF Len(l) <= 1 THEN l
  ELSE <<Head(l), sep>> \o Join(sep, Tail(l))

\* variant: the pair is returned without looking at result['valid']
generate_simple_unchecked(g, m, s, r) ==
  LET res == generate_barcode(g, m, s, r)
  IN IF res.t = "raise" THEN res
     ELSE [t |-> "tuple", tracking_code |-> res.tracking_code,
           barcode |-> res.barcode]

\* generate_simple: the pair, or ValueError; an exception of generate_barcode
\* passes through
generate_simple(g, m, s, r) ==
  LET res == generate_barcode(g, m, s, r)
  IN IF res.t = "raise" THEN res
     ELSE IF res.valid
     THEN [t |-> "tuple", tracking_code |-> res.tracking_code,
           barcode |-> res.barcode]
     ELSE [t |-> "raise", exc |-> "ValueError",
           message |-> <<Err("Invalid inputs: ", <<>>)>>
                         \o Join(Err(", ", <<>>), res.errors)]

InitSimple ==
  /\ OthersIdle
  /\ \E g \in Generators : GeneratorIdle(g)

GenerateSimple ==
  /\ gs.pc = "idle"
  /\ \E m \in MailerIdArgs, s \in SequenceArgs, r \in RoutingArgs :
       gs' = [pc |-> "done", mailer_id |-> m, sequence_num |-> s,
              routing_code |-> r, outcome |-> generate_simple(self, m, s, r)]
  /\ UNCHANGED exceptSimple

NextSimple == GenerateSimple

SpecSimple == InitSimple /\ [][NextSimple]_allVars

----------------------------------------------------------------------------
(* process_file: the batch loop and the Job and Customer rows (src/app.py) *)

\* config['mailer_id'] of every job
ConfigMailerId == PyStr(<<"1", "2", "3", "4", "5", "6">>)

\* int(config.get('starting_sequence', 1))
StartingSequenceArgs == {-1, 1, 2}

\* what validator.validate_address gives for a row: success with a routing
\* code the generator accepts, success with one it rejects, an error status,
\* or an exception
ValidationArgs ==
  {[t |-> "dict", status |-> "SUCCESS",
    routing_code |-> PyStr(<<"9", "0", "2", "1", "0", "5", "4", "3", "2", "0", "1">>)],
   [t |-> "dict", status |-> "SUCCESS",
    routing_code |-> PyStr(<<"9", "0", "2", "1">>)],
   [t |-> "dict", status |-> "ERROR", routing_code |-> PyStr(<<>>)],
   [t |-> "raise", exc |-> "Exception"]}

\* the entry appended to results for a row, by the branch taken
RowResult(g, validation_result, seq) ==
  LET imb_result == generate_barcode(g, ConfigMailerId, PyInt(seq),
                                     validation_result.routing_code)
      Entry(status, message, code) ==
        [sequence_number |-> seq, validation_status |-> status,
         validation_message |-> message, imb_tracking_code |-> code]
  IN IF validation_result.t = "raise"
     THEN Entry("ERROR", "Processing error", PyStr(<<>>))
     ELSE IF validation_result.status # "SUCCESS"
     THEN Entry("ERROR", "", PyStr(<<>>))
     ELSE IF imb_result.t = "raise"
     THEN Entry("ERROR", "Processing error", PyStr(<<>>))
     ELSE IF imb_result.valid
     THEN Entry("SUCCESS", "", imb_result.tracking_code)
     ELSE Entry("ERROR", "IMB generation failed", PyStr(<<>>))

InitBatch ==
  /\ OthersIdle
  /\ \E g \in {IMBGenerator(PyStr(<<"0", "0">>), PyStr(<<"0", "4", "0">>),
                            ConfigMailerId)} : GeneratorIdle(g)

\* the request arrives: the Job row is created, the file is loaded and the
\* loop's sequence number is set
CreateJob ==
  /\ loop.pc = "idle"
  /\ Len(jobs) < MaxJobs
  /\ \E start \in StartingSequenceArgs, n \in 0..MaxRows :
       /\ jobs' = Append(jobs, [mailer_id |-> ConfigMailerId,
                                sequence_start |-> start,
                                sequence_end |-> PyNone,
                                status |-> "processing",
                                output |-> PyNone])
       /\ loop' = [pc |-> "rows", job |-> Len(jobs) + 1, rows |-> n,
                   sequence_num |-> start, results |-> <<>>]
  /\ UNCHANGED <<customer, exceptBatch>>

\* variant: the exception handler does not advance the sequence number
ProcessRowNoIncrementOnError ==
  /\ loop.pc = "rows"
  /\ Len(loop.results) < loop.rows
  /\ \E validation_result \in ValidationArgs :
       LET entry == RowResult(self, validation_result, loop.sequence_num)
       IN loop' = [loop EXCEPT
                     !.results = Append(@, entry),
                     !.sequence_num =
                        IF entry.validation_message = "Processing error"
                        THEN @ ELSE @ + 1]
  /\ UNCHANGED <<customer, jobs, exceptBatch>>

\* one iteration of the loop over the rows
ProcessRow ==
  /\ loop.pc = "rows"
  /\ Len(loop.results) < loop.rows
  /\ \E validation_result \in ValidationArgs :
       loop' = [loop EXCEPT
                  !.results = Append(@, RowResult(self, validation_result,
                                                  loop.sequence_num)),
                  !.sequence_num = @ + 1]
  /\ UNCHANGED <<customer, jobs, exceptBatch>>

\* the sequence_number column of the exported file
SequenceColumn(results) ==
  [k \in 1..Len(results) |-> results[k].sequence_number]

\* after the loop: the file is exported and the Job row is updated
CompleteJob ==
  /\ loop.pc = "rows"
  /\ Len(loop.results) = loop.rows
  /\ jobs' = [jobs EXCEPT ![loop.job] =
                [@ EXCEPT !.status = "complete",
                          !.output = SequenceColumn(loop.results)]]
  /\ loop' = [pc |-> "idle"]
  /\ UNCHANGED <<customer, exceptBatch>>

\* an exception outside the row handler (loading or exporting the file)
FailJob ==
  /\ loop.pc = "rows"
  /\ loop.results = <<>> \/ Len(loop.results) = loop.rows
  /\ jobs' = [jobs EXCEPT ![loop.job] = [@ EXCEPT !.status = "failed"]]
  /\ loop' = [pc |-> "idle"]
  /\ UNCHANGED <<customer, exceptBatch>>

NextBatch ==
  \/ CreateJob
  \/ ProcessRow
  \/ CompleteJob
  \/ FailJob

SpecBatch == InitBatch /\ [][NextBatch]_allVars

----------------------------------------------------------------------------
(* MultiAPIValidator (src/utils/multi_api_validator.py) *)

\* the counters as __init__ and reset_stats set them
ZeroStats ==
  [total_requests |-> 0, primary_success |-> 0, primary_failures |-> 0,
   fallback_success |-> 0, fallback_failures |-> 0, total_failures |-> 0]

\* what a provider's validate_address does: a result with status SUCCESS, a
\* result with another status, or an exception
ProviderOutcomes == {"SUCCESS", "ERROR", "raise"}

\* __init__: fallback_provider may be None, and the fallback validator may
\* fail to initialise
MavInit ==
  /\ mav.pc = "new"
  /\ \E enable_fallback \in BOOLEAN, has_fallback_provider \in BOOLEAN,
        fallback_init_ok \in BOOLEAN :
       LET enabled == enable_fallback /\ has_fallback_provider
       IN mav' = [pc |-> "idle",
                  enable_fallback |-> enabled /\ fallback_init_ok,
                  fallback_validator |-> enabled /\ fallback_init_ok,
                  stats |-> ZeroStats,
                  calls |-> 0,
                  retry_on_error |-> TRUE,
                  primary |-> "none",
                  fallback |-> "none"]
  /\ UNCHANGED exceptValidator

\* validate_address is entered
MavCall ==
  /\ mav.pc = "idle"
  /\ mav.calls < MaxCalls
  /\ \E retry_on_error \in BOOLEAN :
       mav' = [mav EXCEPT !.pc = "primary",
                          !.calls = @ + 1,
                          !.retry_on_error = retry_on_error,
                          !.primary = "none",
                          !.fallback = "none",
                          !.stats.total_requests = @ + 1]
  /\ UNCHANGED exceptValidator

\* variant: an error returned without fallback is not counted as a failure
MavPrimaryForgetsFailure ==
  /\ mav.pc = "primary"
  /\ \E outcome \in ProviderOutcomes :
       mav' =
         IF outcome = "SUCCESS"
         THEN [mav EXCEPT !.pc = "idle", !.primary = outcome,
                          !.stats.primary_success = @ + 1]
         ELSE IF ~mav.enable_fallback \/ ~mav.retry_on_error
         THEN [mav EXCEPT !.pc = "idle", !.primary = outcome,
                          !.stats.primary_failures = @ + 1]
         ELSE [mav EXCEPT !.pc = "fallback", !.primary = outcome,
                          !.stats.primary_failures = @ + 1]
  /\ UNCHANGED exceptValidator

\* the primary provider is tried
MavPrimary ==
  /\ mav.pc = "primary"
  /\ \E outcome \in ProviderOutcomes :
       mav' =
         IF outcome = "SUCCESS"
         THEN [mav EXCEPT !.pc = "idle", !.primary = outcome,
                          !.stats.primary_success = @ + 1]
         ELSE IF ~mav.enable_fallback \/ ~mav.retry_on_error
         THEN [mav EXCEPT !.pc = "idle", !.primary = outcome,
                          !.stats.primary_failures = @ + 1,
                          !.stats.total_failures = @ + 1]
         ELSE [mav EXCEPT !.pc = "fallback", !.primary = outcome,
                          !.stats.primary_failures = @ + 1]
  /\ UNCHANGED exceptValidator

\* the fallback provider is tried, if there is one
MavFallback ==
  /\ mav.pc = "fallback"
  /\ IF mav.enable_fallback /\ mav.fallback_validator
     THEN \E outcome \in ProviderOutcomes :
            mav' =
              IF outcome = "SUCCESS"
              THEN [mav EXCEPT !.pc = "idle", !.fallback = outcome,
                               !.stats.fallback_success = @ + 1]
              ELSE [mav EXCEPT !.pc = "idle", !.fallback = outcome,
                               !.stats.fallback_failures = @ + 1,
                               !.stats.total_failures = @ + 1]
     ELSE mav' = [mav EXCEPT !.pc = "idle",
                             !.stats.total_failures = @ + 1]
  /\ UNCHANGED exceptValidator

\* reset_stats, between calls
MavResetStats ==
  /\ mav.pc = "idle"
  /\ mav' = [mav EXCEPT !.stats = ZeroStats]
  /\ UNCHANGED exceptValidator

InitValidator ==
  /\ OthersIdle
  /\ \E g \in {DefaultGenerator} : GeneratorIdle(g)

NextValidator ==
  \/ MavInit
  \/ MavCall
  \/ MavPrimary
  \/ MavFallback
  \/ MavResetStats

SpecValidator == InitValidator /\ [][NextValidator]_allVars

----------------------------------------------------------------------------
(* What an invocation returned *)

Returned == pc = "done"
Raised == pc = "raised"
ReturnedValid == Returned /\ result.valid
ReturnedInvalid == Returned /\ ~result.valid

Finished == Returned \/ Raised
Validated == pc \notin {"idle", "validate"}

HasError(errs, msg) == \E i \in 1..Len(errs) : errs[i].msg = msg

AllDecimal(s) == \A i \in 1..Len(s) : s[i] \in DigitChars

----------------------------------------------------------------------------
(* C1 *)

\* C1: whenever generate_barcode returns valid=true, the checksum it returns
\* is an integer in [0, 2047] (it fits in 11 bits).
C1_CrcFitsIn11Bits ==
  ReturnedValid => (result.crc.t = "int" /\ result.crc.n \in 0..2047)

----------------------------------------------------------------------------
(* C2 *)

\* C2: every input on which validate_inputs returns the empty list is encoded:
\* the invocation does not raise, and it returns valid=true with a tracking
\* code made only of decimal digits.
C2_AcceptedInputsEncode ==
  (Validated /\ errors = <<>>) =>
    /\ ~Raised
    /\ Returned => (result.valid /\ AllDecimal(result.tracking_code.s))

----------------------------------------------------------------------------
(* C3 *)

\* C3: a returned result is all-or-nothing: either valid=false with a
\* non-empty errors list and tracking_code, barcode and crc all None, or
\* valid=true with an empty errors list and all three populated.
C3_AllOrNothing ==
  Returned =>
    \/ /\ ~result.valid
       /\ result.errors # <<>>
       /\ result.tracking_code = PyNone
       /\ result.barcode = PyNone
       /\ result.crc = PyNone
    \/ /\ result.valid
       /\ result.errors = <<>>
       /\ result.tracking_code.t = "str"
       /\ result.barcode.t = "str"
       /\ result.crc.t = "int"

C3_Witness ==
  /\ ReturnedValid
  /\ result.tracking_code.t = "str"
  /\ result.barcode.t = "str"
  /\ result.crc.t = "int"

----------------------------------------------------------------------------
(* C4 *)

\* C4: the tracking code built by generate_tracking_code on inputs the
\* validator accepted, and the one returned with valid=true, has exactly 31
\* characters (6-digit and 9-digit mailer ids alike).
C4_TrackingCodeLength ==
  /\ tracking_code.t = "str" => Len(tracking_code.s) = 31
  /\ ReturnedValid => Len(result.tracking_code.s) = 31

C4_Witness ==
  /\ ReturnedValid
  /\ Len(Str(mailer_id)) = 9
  /\ Len(Str(sequence_num)) = 1
  /\ Len(result.tracking_code.s) = 31

----------------------------------------------------------------------------
(* C5 *)

\* C5: whenever generate_barcode returns valid=true, the barcode has exactly
\* 65 characters, each one of T, D, A, F.
C5_BarcodeShape ==
  ReturnedValid =>
    /\ Len(result.barcode.s) = 65
    /\ \A i \in 1..Len(result.barcode.s) :
         result.barcode.s[i] \in {"T", "D", "A", "F"}

C5_Witness ==
  /\ ReturnedValid
  /\ Len(result.barcode.s) = 65
  /\ \A c \in {"T", "D", "A", "F"} :
       \E i \in 1..Len(result.barcode.s) : result.barcode.s[i] = c

----------------------------------------------------------------------------
(* C6 *)

BadMailerId ==
  \/ Len(Str(mailer_id)) \notin {6, 9}
  \/ \E i \in 1..Len(Str(mailer_id)) : Str(mailer_id)[i] \notin DigitChars

\* C6: a mailer id whose string form has a length other than 6 or 9, or
\* contains a non-digit, is rejected: the invocation returns valid=false with
\* an error about the mailer id (the length error names the 6-or-9
\* constraint) and tracking_code, barcode and crc are None; no encoding
\* stage runs.
C6_BadMailerIdRejected ==
  (Validated /\ BadMailerId) =>
    /\ pc \in {"validated", "done"}
    /\ \/ HasError(errors, "Mailer ID must be 6 or 9 digits, got: {} digits")
       \/ HasError(errors, "Mailer ID must contain only digits")
    /\ Len(Str(mailer_id)) \notin {6, 9} =>
         HasError(errors, "Mailer ID must be 6 or 9 digits, got: {} digits")
    /\ Returned =>
         /\ ~result.valid
         /\ result.errors = errors
         /\ result.tracking_code = PyNone
         /\ result.barcode = PyNone
         /\ result.crc = PyNone

C6_Witness ==
  /\ ReturnedInvalid
  /\ mailer_id = PyStr(<<"1", "2", "3", "4", "5">>)
  /\ Len(result.errors) = 1
  /\ result.errors[1].msg = "Mailer ID must be 6 or 9 digits, got: {} digits"
  /\ result.errors[1].args = << <<"5">> >>

----------------------------------------------------------------------------
(* C7 *)

C7_Stids ==
  { <<"0", "4", "0">>, <<"2", "4", "0">>, <<"2", "7", "1">>,
    <<"3", "4", "0">>, <<"4", "4", "0">>, <<"5", "4", "0">> }

\* the other inputs are acceptable: a 2-digit barcode id, a 6- or 9-digit
\* mailer id, a decimal sequence number that fits beside it, and a routing
\* code of 0, 5, 9 or 11 digits
C7_OthersAcceptable ==
  /\ Len(self.barcode_id) = 2 /\ AllDecimal(self.barcode_id)
  /\ Len(Str(mailer_id)) \in {6, 9} /\ AllDecimal(Str(mailer_id))
  /\ Str(sequence_num) # <<>> /\ AllDecimal(Str(sequence_num))
  /\ Len(Str(sequence_num)) + Len(Str(mailer_id)) <= 15
  /\ Len(StripHyphens(Str(routing_code))) \in {0, 5, 9, 11}
  /\ AllDecimal(StripHyphens(Str(routing_code)))

\* C7: with all other inputs acceptable, the invocation returns valid=true
\* if and only if the generator's service type (zero-filled to 3 characters)
\* is one of 040, 240, 271, 340, 440, 540; every other service type, such as
\* 999, is returned with valid=false.
C7_ServiceTypeEnumeration ==
  /\ (Finished /\ C7_OthersAcceptable) =>
       (ReturnedValid <=> self.service_type \in C7_Stids)
  /\ (Finished /\ self.service_type \notin C7_Stids) => ReturnedInvalid

C7_Witness ==
  /\ ReturnedInvalid
  /\ C7_OthersAcceptable
  /\ self.service_type = <<"9", "9", "9">>
  /\ Len(result.errors) = 1

----------------------------------------------------------------------------
(* C8 *)

C8_SeqMsg == "Sequence number too large. Max {} digits for {}-digit Mailer ID"

\* C8: validate_inputs reports the sequence-number violation exactly when the
\* length of the sequence number's string form exceeds 15 minus the length of
\* the mailer id's string form: beside a 6-digit mailer id up to 9 digits
\* pass and 10 or more fail, beside a 9-digit mailer id up to 6 pass and 7 or
\* more fail.
C8_SequenceWidth ==
  Validated =>
    /\ HasError(errors, C8_SeqMsg) <=>
         Len(Str(sequence_num)) + Len(Str(mailer_id)) > 15
    /\ Len(Str(mailer_id)) = 6 =>
         (HasError(errors, C8_SeqMsg) <=> Len(Str(sequence_num)) >= 10)
    /\ Len(Str(mailer_id)) = 9 =>
         (HasError(errors, C8_SeqMsg) <=> Len(Str(sequence_num)) >= 7)

C8_Witness ==
  /\ Validated
  /\ Len(Str(mailer_id)) = 9
  /\ Len(Str(sequence_num)) = 7
  /\ HasError(errors, C8_SeqMsg)

----------------------------------------------------------------------------
(* C9 *)

C9_RoutingErrors ==
  \/ HasError(errors, "Routing code must be 0, 5, 9, or 11 digits, got: {} digits")
  \/ HasError(errors, "Routing code must contain only digits")

\* C9: validate_inputs accepts a routing code exactly when, with the hyphens
\* removed from its string form, its length is 0, 5, 9 or 11 and it is all
\* digits when non-empty; the empty routing code is accepted, and every other
\* routing code produces a routing-code violation.
C9_RoutingAccepted ==
  Validated =>
    LET stripped == SelectSeq(Str(routing_code), LAMBDA c : c # "-")
    IN /\ ~C9_RoutingErrors <=>
            (Len(stripped) \in {0, 5, 9, 11} /\ AllDecimal(stripped))
       /\ routing_code = PyStr(<<>>) => ~C9_RoutingErrors

C9_Witness ==
  /\ Validated
  /\ routing_code = PyStr(<<"9", "0", "2", "1", "0", "-", "5", "4", "3", "2">>)
  /\ ~C9_RoutingErrors

----------------------------------------------------------------------------
(* C10 *)

\* the seven checks in the validator's order: the message of each, and
\* whether the invocation's inputs violate it
C10_Msgs ==
  << "Barcode ID must be 2 digits, got: {}",
     "Service Type must be one of {valid_stids}, got: {}",
     "Mailer ID must be 6 or 9 digits, got: {} digits",
     "Mailer ID must contain only digits",
     C8_SeqMsg,
     "Routing code must be 0, 5, 9, or 11 digits, got: {} digits",
     "Routing code must contain only digits" >>

C10_Violated ==
  LET m == Str(mailer_id)
      r == SelectSeq(Str(routing_code), LAMBDA c : c # "-")
  IN << Len(self.barcode_id) # 2 \/ ~AllDecimal(self.barcode_id),
        self.service_type \notin C7_Stids,
        Len(m) \notin {6, 9},
        m = <<>> \/ ~AllDecimal(m),
        Len(Str(sequence_num)) + Len(m) > 15,
        Len(r) \notin {0, 5, 9, 11},
        ~AllDecimal(r) >>

\* C10: validate_inputs performs every check whatever failed before: the
\* returned list holds exactly one message for each violated check, in the
\* fixed order barcode id, service type, mailer-id length, mailer-id digits,
\* sequence width, routing length, routing digits; it is empty only if no
\* check is violated.
C10_AllChecksReported ==
  Validated =>
    /\ [i \in 1..Len(errors) |-> errors[i].msg] =
         [i \in 1..Len(SelectSeq(<<1, 2, 3, 4, 5, 6, 7>>,
                                 LAMBDA k : C10_Violated[k])) |->
            C10_Msgs[SelectSeq(<<1, 2, 3, 4, 5, 6, 7>>,
                               LAMBDA k : C10_Violated[k])[i]]]
    /\ errors = <<>> <=> \A k \in 1..7 : ~C10_Violated[k]

C10_Witness ==
  /\ Validated
  /\ Len(errors) = 7
  /\ \A k \in 1..7 : C10_Violated[k]

----------------------------------------------------------------------------
(* C11 *)

\* s with zeros put in front of it until it is w characters long
LeftZeroPad(s, w) == IF Len(s) >= w THEN s ELSE [i \in 1..(w - Len(s)) |-> "0"] \o s

C11_MailerWidth == IF Len(Str(mailer_id)) <= 6 THEN 6 ELSE 9

C11_Layout ==
  self.barcode_id \o self.service_type
    \o LeftZeroPad(Str(mailer_id), C11_MailerWidth)
    \o LeftZeroPad(Str(sequence_num), 15 - C11_MailerWidth)
    \o LeftZeroPad(SelectSeq(Str(routing_code), LAMBDA c : c # "-"), 11)

\* C11: for every input the validator accepted, the tracking code is the
\* barcode id (2), the service type (3), the mailer id zero-padded to 6 or 9,
\* the sequence number left-zero-padded to 15 minus the mailer width, and the
\* routing code with its hyphens removed, zero-padded to 11 (11 zeros when
\* empty), in that order with no separators; 00, 040, 123456, 1, 90210543201
\* gives 0004012345600000000190210543201.
C11_TrackingCodeLayout ==
  tracking_code.t = "str" =>
    /\ tracking_code.s = C11_Layout
    /\ ( /\ self.barcode_id = <<"0", "0">>
         /\ self.service_type = <<"0", "4", "0">>
         /\ Str(mailer_id) = <<"1", "2", "3", "4", "5", "6">>
         /\ sequence_num = PyInt(1)
         /\ routing_code =
              PyStr(<<"9", "0", "2", "1", "0", "5", "4", "3", "2", "0", "1">>) )
       => tracking_code.s =
            <<"0", "0", "0", "4", "0", "1", "2", "3", "4", "5", "6",
              "0", "0", "0", "0", "0", "0", "0", "0", "1",
              "9", "0", "2", "1", "0", "5", "4", "3", "2", "0", "1">>

----------------------------------------------------------------------------
(* C12 *)

\* C12: for every input the validator accepted, the padded mailer id and the
\* padded sequence number inside the tracking code are 6 and 9 or 9 and 6
\* characters long, 15 together; they are the characters 6..20 of the
\* tracking code.
C12_MailerPlusSequenceIs15 ==
  tracking_code.t = "str" =>
    LET mailer_id_str == PaddedMailer(mailer_id)
        sequence_str == PaddedSequence(mailer_id, sequence_num)
    IN /\ Len(mailer_id_str) + Len(sequence_str) = 15
       /\ <<Len(mailer_id_str), Len(sequence_str)>> \in {<<6, 9>>, <<9, 6>>}
       /\ SubSeq(tracking_code.s, 6, 5 + Len(mailer_id_str)) = mailer_id_str
       /\ SubSeq(tracking_code.s, 6 + Len(mailer_id_str), 20) = sequence_str
       /\ Len(tracking_code.s) = 20 + 11

C12_Witness ==
  /\ tracking_code.t = "str"
  /\ Len(PaddedMailer(mailer_id)) = 9
  /\ Len(PaddedSequence(mailer_id, sequence_num)) = 6
  /\ Len(Str(sequence_num)) = 6

----------------------------------------------------------------------------
(* C13 *)

\* a component that is absent (None) or empty
C13_Absent(v) == v = PyNone \/ v = PyStr(<<>>)

C13_Field(v, w) ==
  IF C13_Absent(v) THEN [i \in 1..w |-> "0"] ELSE LeftZeroPad(Str(v), w)

\* C13: build_routing_code returns zip5 left-zero-padded to 5 digits, then
\* zip4 padded to 4, then delivery_point padded to 2, with 00000, 0000 and 00
\* for an absent or empty component; (90210, 5432, 01) gives 90210543201 and
\* (absent, absent, absent) gives 00000000000.
C13_RoutingCodeFields ==
  brc.pc = "done" =>
    /\ brc.result = C13_Field(brc.zip5, 5) \o C13_Field(brc.zip4, 4)
                      \o C13_Field(brc.delivery_point, 2)
    /\ ( /\ brc.zip5 = PyStr(<<"9", "0", "2", "1", "0">>)
         /\ brc.zip4 = PyStr(<<"5", "4", "3", "2">>)
         /\ brc.delivery_point = PyStr(<<"0", "1">>) )
       => brc.result = <<"9", "0", "2", "1", "0", "5", "4", "3", "2", "0", "1">>
    /\ (brc.zip5 = PyNone /\ brc.zip4 = PyNone /\ brc.delivery_point = PyNone)
       => brc.result = <<"0", "0", "0", "0", "0", "0", "0", "0", "0", "0", "0">>

C13_Witness ==
  /\ brc.pc = "done"
  /\ brc.zip5 = PyStr(<<"1", "2", "3">>)
  /\ brc.zip4 = PyStr(<<>>)
  /\ brc.delivery_point = PyInt(7)
  /\ brc.result = <<"0", "0", "1", "2", "3", "0", "0", "0", "0", "0", "7">>

----------------------------------------------------------------------------
(* C14 *)

\* C14: build_routing_code is total and its result is exactly 11 characters
\* long, for every combination of zip5, zip4 and delivery_point that are
\* absent, empty or decimal values of any length.
C14_RoutingCodeIs11 ==
  /\ brc.pc = "done" => Len(brc.result) = 11
  /\ brc.pc = "idle" => ENABLED BuildRoutingCode

----------------------------------------------------------------------------
(* C15 *)

\* the returns recorded so far
Returns == {i \in 1..Len(history) : history[i].kind = "return"}

SameArguments(a, b) ==
  /\ a.mailer_id = b.mailer_id
  /\ a.sequence_num = b.sequence_num
  /\ a.routing_code = b.routing_code

\* C15: two invocations of generate_barcode on one generator (one
\* configuration) with identical arguments return identical valid, errors,
\* tracking_code, crc and barcode (or raise the same exception), whatever
\* other invocations were called or returned in between.
C15_Determinism ==
  \A i \in Returns : \A j \in Returns :
    SameArguments(history[i], history[j])
      => history[i].outcome = history[j].outcome

\* the worked example returned twice, with a call of other arguments that
\* began after the first began and returned before the second returned
C15_Witness ==
  \E i \in Returns : \E j \in Returns : \E k \in Returns :
    /\ i < k /\ k < j
    /\ SameArguments(history[i], history[j])
    /\ ~SameArguments(history[i], history[k])
    /\ history[i].outcome.t = "dict"
    /\ history[i].outcome.valid
    /\ history[i].outcome.crc = PyInt(1654)

----------------------------------------------------------------------------
(* C16 *)

\* the step is a return of generate_barcode
IsReturn ==
  /\ Len(history') = Len(history) + 1
  /\ history'[Len(history')].kind = "return"

\* C16: no step of validate_inputs, generate_tracking_code, calculate_crc,
\* encode_to_codewords, codewords_to_characters or generate_barcode changes
\* the generator's fields (barcode_id, service_type, mailer_id), and under
\* every interleaving of concurrent invocations on one generator each
\* invocation returns what generate_barcode returns when run alone on the
\* same arguments.
C16_NoSharedState ==
  [][/\ self' = self
     /\ IsReturn =>
          LET e == history'[Len(history')]
          IN e.outcome = generate_barcode(self, e.mailer_id, e.sequence_num,
                                          e.routing_code)]_allVars

\* a valid result returned by a thread whose invocation ran while the other
\* thread's invocation was in progress: call, call, return of the first
C16_Witness ==
  /\ Len(history) >= 3
  /\ history[1].kind = "call"
  /\ history[2].kind = "call"
  /\ history[2].thread # history[1].thread
  /\ history[3].kind = "return"
  /\ history[3].thread = history[1].thread
  /\ history[3].outcome.t = "dict"
  /\ history[3].outcome.valid
  /\ inv[history[2].thread].pc = "encoded"

----------------------------------------------------------------------------
(* C17 *)

\* the bits of n, least significant first, by repeated division by 2
RECURSIVE C17_BitsLoop(_, _)
C17_BitsLoop(st, stop) ==
  IF st.i = stop THEN st
  ELSE LET dm == DivMod(st.n, 2)
       IN C17_BitsLoop([i |-> st.i + 1, n |-> dm.q,
                        bits |-> Append(st.bits, dm.r)], stop)

RECURSIVE C17_BitsBlocks(_)
C17_BitsBlocks(st) ==
  IF st.i = 102 THEN st
  ELSE C17_BitsBlocks(C17_BitsLoop(st, IF st.i + 10 < 102 THEN st.i + 10
                                       ELSE 102))

C17_Bits(n) == C17_BitsBlocks([i |-> 0, n |-> n, bits |-> <<>>]).bits

\* XOR through the sets of bit positions
C17_BitSet(x) == {k \in 0..12 : (x \div (2 ^ k)) % 2 = 1}

RECURSIVE C17_FromBitSet(_)
C17_FromBitSet(S) ==
  IF S = {} THEN 0
  ELSE LET k == CHOOSE j \in S : TRUE IN (2 ^ k) + C17_FromBitSet(S \ {k})

C17_Xor(a, b) ==
  C17_FromBitSet((C17_BitSet(a) \ C17_BitSet(b)) \cup (C17_BitSet(b) \ C17_BitSet(a)))

\* the reference bit-serial computation over the 102 bits
RECURSIVE C17_RefLoop(_, _)
C17_RefLoop(st, stop) ==
  IF st.i = stop THEN st
  ELSE LET r1 == IF st.bits[st.i + 1] = 1 THEN C17_Xor(st.reg, 2047) ELSE st.reg
           r2 == IF r1 % 2 = 1 THEN C17_Xor(r1 \div 2, 3893) ELSE r1 \div 2
       IN C17_RefLoop([i |-> st.i + 1, reg |-> r2, bits |-> st.bits], stop)

RECURSIVE C17_RefBlocks(_)
C17_RefBlocks(st) ==
  IF st.i = 102 THEN st
  ELSE C17_RefBlocks(C17_RefLoop(st, IF st.i + 10 < 102 THEN st.i + 10
                                     ELSE 102))

C17_Reference(n) ==
  C17_RefBlocks([i |-> 0, reg |-> 2047, bits |-> C17_Bits(n)]).reg

\* C17: calculate_crc equals the reference bit-serial computation: the
\* register starts at 0x7FF; 102 iterations, each consuming the current
\* least-significant bit of the tracking-code integer; the register is XORed
\* with 0x7FF if that bit is 1, then shifted right by one, and XORed with
\* 0x0F35 after the shift if its least-significant bit was 1; the value after
\* the 102nd iteration is the result.
C17_CrcIsReference ==
  crc.t = "int" => crc.n = C17_Reference(IntDigits(tracking_code.s))

C17_Witness ==
  /\ crc.t = "int"
  /\ tracking_code.s =
       <<"0", "0", "0", "4", "0", "1", "2", "3", "4", "5", "6",
         "0", "0", "0", "0", "0", "0", "0", "0", "1",
         "9", "0", "2", "1", "0", "5", "4", "3", "2", "0", "1">>
  /\ crc.n = 1654

----------------------------------------------------------------------------
(* C18 *)

\* a digit sequence without its leading zeros
RECURSIVE Normalize(_)
Normalize(n) == IF n # <<>> /\ n[1] = 0 THEN Normalize(Tail(n)) ELSE n

\* C18: in the combined integer trackingCodeInteger * 2048 + checksum that
\* encode_to_codewords forms, the checksum occupies exactly the low 11 bits:
\* combined mod 2048 is the checksum and combined div 2048 is the
\* tracking-code integer.
C18_ChecksumInLow11Bits ==
  codewords # <<>> =>
    LET n == IntDigits(tracking_code.s)
        dm == DivMod(Combined(n, crc.n), 2048)
    IN /\ dm.r = crc.n
       /\ Normalize(dm.q) = Normalize(n)

----------------------------------------------------------------------------
(* C19 *)

\* combined, combined div 1365, combined div 1365^2, ...
RECURSIVE C19_QuotientLoop(_)
C19_QuotientLoop(st) ==
  IF st.i = 10 THEN st.qs
  ELSE LET q == DivMod(st.qs[Len(st.qs)], 1365).q
       IN C19_QuotientLoop([i |-> st.i + 1, qs |-> Append(st.qs, q)])

C19_Quotients ==
  C19_QuotientLoop([i |-> 0,
                    qs |-> <<MulAdd(IntDigits(tracking_code.s), 2048, crc.n)>>])

----------------------------------------------------------------------------
(* C20 *)

C20_Symbol(d) ==
  CASE d = 0 -> "T" [] d = 1 -> "D" [] d = 2 -> "A" [] d = 3 -> "F"

\* C20: the barcode's symbol at position 7*i + j (0 <= j < 7, 7*i + j < 65)
\* is the image under {0->T, 1->D, 2->A, 3->F} of floor(ci / 4^j) mod 4 for
\* the encoder's codewords c0..c9: each codeword is expanded least
\* significant base-4 digit first into 7 symbols, the expansions are
\* concatenated in codeword order and the first 65 symbols are kept.
C20_SymbolPositions ==
  barcode.t = "str" =>
    /\ Len(barcode.s) = 65
    /\ \A p \in 0..64 :
         barcode.s[p + 1] =
           C20_Symbol((codewords[(p \div 7) + 1] \div (4 ^ (p % 7))) % 4)

C20_Witness ==
  /\ ReturnedValid
  /\ codewords = <<32, 778, 843, 1304, 13, 1044, 612, 1121, 680, 499>>
  /\ result.barcode.s =
       <<"T","T","A","T","T","T","T","A","A","T","T","F","T","T","F","A",
         "T","D","F","T","T","T","A","D","T","D","D","T","D","F","T","T",
         "T","T","T","T","D","D","T","T","D","T","T","D","A","D","A","T",
         "T","D","T","A","D","T","D","T","T","A","A","A","A","T","T","F",
         "T">>

----------------------------------------------------------------------------
(* C21 *)

\* the symbol the expansion of the codeword list cws has at position p
\* (0-based, p < 7 * Len(cws))
C21_ExpansionSymbol(cws, p) ==
  LET d == (cws[(p \div 7) + 1] \div (4 ^ (p % 7))) % 4
  IN CASE d = 0 -> "T" [] d = 1 -> "D" [] d = 2 -> "A" [] d = 3 -> "F"

\* C21: codewords_to_characters returns exactly 65 symbols for a codeword
\* list of any length n >= 0: the first min(65, 7n) symbols are the expansion
\* symbols in order, and when 7n < 65 the remaining 65 - 7n positions are
\* all T (an empty list gives 65 T's, 9 codewords give 63 expansion symbols
\* followed by TT).
C21_AlwaysSixtyFive ==
  ctc.pc = "done" =>
    LET n == Len(ctc.codewords)
    IN /\ Len(ctc.result) = 65
       /\ \A p \in 0..64 :
            ctc.result[p + 1] =
              IF p < 7 * n THEN C21_ExpansionSymbol(ctc.codewords, p) ELSE "T"

\* nine codewords: 63 expansion symbols, not all T, followed by TT
C21_Witness ==
  /\ ctc.pc = "done"
  /\ Len(ctc.codewords) = 9
  /\ ctc.codewords[9] = 1364
  /\ ctc.result[62] = "D"
  /\ ctc.result[64] = "T"
  /\ ctc.result[65] = "T"

----------------------------------------------------------------------------
(* C22 *)

\* the stage outputs that a step does not produce stay as they are
C22_Keeps(outputs) == outputs' = outputs

\* one step of an invocation as the claim describes it
C22_Step ==
  \/ /\ pc = "idle"
     /\ pc' = "validate"
  \/ /\ pc = "validate"
     /\ pc' = "validated"
     /\ C22_Keeps(<<tracking_code, crc, codewords, barcode, result>>)
  \/ /\ pc = "validated"
     /\ errors # <<>>
     /\ pc' = "done"
     /\ result'.t = "dict"
     /\ ~result'.valid
     /\ <<tracking_code', crc', codewords', barcode'>>
          = <<PyNone, PyNone, <<>>, PyNone>>
  \/ /\ pc = "validated"
     /\ errors = <<>>
     /\ pc' = "tracked"
     /\ tracking_code'.t = "str"
     /\ C22_Keeps(<<crc, codewords, barcode, result>>)
  \/ /\ pc = "tracked"
     /\ pc' = "crc"
     /\ crc' = PyInt(calculate_crc(IntDigits(tracking_code.s)))
     /\ C22_Keeps(<<tracking_code, codewords, barcode, result>>)
  \/ /\ pc = "crc"
     /\ pc' = "encoded"
     /\ codewords' = encode_to_codewords(IntDigits(tracking_code.s), crc.n)
     /\ C22_Keeps(<<tracking_code, crc, barcode, result>>)
  \/ /\ pc = "encoded"
     /\ pc' = "mapped"
     /\ barcode' = PyStr(codewords_to_characters(codewords))
     /\ C22_Keeps(<<tracking_code, crc, codewords, result>>)
  \/ /\ pc = "mapped"
     /\ pc' = "done"
     /\ result'.t = "dict"
     /\ result'.valid
     /\ <<result'.tracking_code, result'.crc, result'.barcode>>
          = <<tracking_code, crc, barcode>>
     /\ C22_Keeps(<<tracking_code, crc, codewords, barcode>>)

\* C22: within one generate_barcode invocation the stages run strictly
\* forward and at most once each: validation first; if it reports any
\* violation, none of tracking-code building, checksum, codeword encoding or
\* symbol mapping runs; otherwise they run exactly once each in the order
\* tracking code, checksum, codewords, symbols, each consuming the previous
\* stage's output, and then the result is returned.
C22_StagesForward == [][C22_Step]_allVars

----------------------------------------------------------------------------
(* C23 *)

\* C23: the 102 iterations of calculate_crc consume every bit of the
\* tracking-code integer: for every 31-digit tracking code (in particular
\* those whose barcode id is 51 or more) the shrinking integer is 0 after
\* the loop, so no bit of the tracking code is left out of the checksum.
C23_AllBitsConsumed ==
  crc.t = "int" =>
    IsZero(calculate_crc_state(IntDigits(tracking_code.s)).tracking_int)

----------------------------------------------------------------------------
(* C24 *)

\* the sum over i of codeword[i] * 1365^i, by Horner's rule from the last
RECURSIVE C24_Horner(_)
C24_Horner(st) ==
  IF st.i = 0 THEN st.acc
  ELSE C24_Horner([i |-> st.i - 1, cws |-> st.cws,
                   acc |-> MulAdd(st.acc, 1365, st.cws[st.i])])

C24_Sum(cws) == C24_Horner([i |-> Len(cws), cws |-> cws, acc |-> <<>>])

\* C24: the 10 codewords represent the combined integer without loss: for
\* every accepted tracking code and its checksum, the sum over i = 0..9 of
\* codeword[i] * 1365^i equals trackingCodeInteger * 2048 + checksum, and
\* the quotient left after the 10th extraction is 0.
C24_CodewordsLossless ==
  codewords # <<>> =>
    LET n == IntDigits(tracking_code.s)
    IN /\ Normalize(C24_Sum(codewords)) = Normalize(MulAdd(n, 2048, crc.n))
       /\ IsZero(encode_state(n, crc.n).combined)

----------------------------------------------------------------------------
(* C25 *)

\* the input was accepted and its sequence number is a decimal number
C25_Accepted(x) == x.errors = <<>> /\ IsDigit(Str(x.sequence_num))

\* the pair (mailer id, numeric sequence number) of an input
C25_Key(x) ==
  <<Str(x.mailer_id), Normalize(IntDigits(Str(x.sequence_num)))>>

\* C25: for a fixed barcode id, service type and routing code, two
\* validator-accepted inputs that differ in the pair (mailer id, numeric
\* sequence number), including a 6-digit mailer id with a 9-digit sequence
\* against a 9-digit mailer id with a 6-digit sequence, produce different
\* tracking codes.
C25_DistinctTrackingCodes ==
  (/\ pair.pc = "done"
   /\ C25_Accepted(pair.a)
   /\ C25_Accepted(pair.b)
   /\ C25_Key(pair.a) # C25_Key(pair.b))
    => pair.a.tracking_code # pair.b.tracking_code

----------------------------------------------------------------------------
(* C26 *)

\* C26: generate_simple returns the pair (tracking_code, barcode) of
\* generate_barcode exactly when that result is valid, and otherwise raises
\* ValueError whose message lists every validation error; it never returns
\* a pair containing None.
C26_PairOrValueError ==
  gs.pc = "done" =>
    LET errs == validate_inputs(self, gs.mailer_id, gs.sequence_num,
                                gs.routing_code)
        res == generate_barcode(self, gs.mailer_id, gs.sequence_num,
                                gs.routing_code)
    IN /\ gs.outcome.t = "tuple" <=> (res.t = "dict" /\ res.valid)
       /\ gs.outcome.t = "tuple" =>
            /\ gs.outcome.tracking_code = res.tracking_code
            /\ gs.outcome.barcode = res.barcode
            /\ gs.outcome.tracking_code.t = "str"
            /\ gs.outcome.barcode.t = "str"
       /\ gs.outcome.t # "tuple" =>
            /\ gs.outcome.t = "raise"
            /\ gs.outcome.exc = "ValueError"
            /\ \A i \in 1..Len(errs) :
                 \E j \in 1..Len(gs.outcome.message) :
                   gs.outcome.message[j] = errs[i]

\* a call rejected for two reasons: ValueError naming both
C26_Witness ==
  /\ gs.pc = "done"
  /\ gs.outcome.t = "raise"
  /\ Len(validate_inputs(self, gs.mailer_id, gs.sequence_num,
                         gs.routing_code)) = 2
  /\ Len(gs.outcome.message) = 4

----------------------------------------------------------------------------
(* C27 *)

\* C27: in every barcode returned by generate_barcode the symbols at the
\* 0-based positions 6, 13, 20, 27, 34, 41, 48, 55 and 62 are T, because
\* each codeword is below 4^6 and its seventh base-4 digit is 0; only the
\* first two symbols of the tenth codeword's expansion appear (positions 63
\* and 64), so the padding branch is never taken.
C27_SeventhSymbolIsT ==
  ReturnedValid =>
    /\ \A i \in 1..Len(codewords) : codewords[i] < 4 ^ 6
    /\ \A i \in 1..9 : result.barcode.s[7 * i] = "T"
    /\ Len(Characters(codewords)) >= 65
    /\ result.barcode.s[64] = C20_Symbol(codewords[10] % 4)
    /\ result.barcode.s[65] = C20_Symbol((codewords[10] \div 4) % 4)

\* a barcode whose tenth codeword starts with two symbols other than T
C27_Witness ==
  /\ ReturnedValid
  /\ result.barcode.s[64] = "F"
  /\ result.barcode.s[65] # "T"

----------------------------------------------------------------------------
(* C28 *)

\* C28: in the batch loop of process_file the sequence number advances by
\* exactly one per processed row whatever the row's outcome (IMB generated,
\* address validation error, IMB validation failure, exception), so the
\* k-th processed row (k = 0, 1, ...) is given starting_sequence + k and no
\* two rows of one job receive the same sequence number.
C28_SequenceAdvancesPerRow ==
  loop.pc = "rows" =>
    LET start == jobs[loop.job].sequence_start
    IN /\ loop.sequence_num = start + Len(loop.results)
       /\ \A k \in 1..Len(loop.results) :
            loop.results[k].sequence_number = start + (k - 1)
       /\ \A k \in 1..Len(loop.results) : \A l \in 1..Len(loop.results) :
            k # l => loop.results[k].sequence_number
                       # loop.results[l].sequence_number

\* three rows: an exception, a validation error and a generated barcode
C28_Witness ==
  /\ loop.pc = "rows"
  /\ Len(loop.results) = 3
  /\ loop.results[1].validation_message = "Processing error"
  /\ loop.results[2].validation_status = "ERROR"
  /\ loop.results[2].validation_message = ""
  /\ loop.results[3].validation_status = "SUCCESS"
  /\ loop.results[3].sequence_number = 4

----------------------------------------------------------------------------
(* C29 *)

Completed == {j \in 1..Len(jobs) : jobs[j].status = "complete"}

\* the sequence numbers job j gave to mailpieces
Used(j) == {jobs[j].output[k] : k \in 1..Len(jobs[j].output)}

\* C29: after a job completes, the customer's last_sequence_number and the
\* job's sequence_end record the last sequence number the job used, so two
\* completed jobs for the same customer and mailer id never assign the same
\* sequence number to two mailpieces.
C29_NoDuplicateSequenceNumbers ==
  /\ \A j \in Completed :
       jobs[j].output # <<>> =>
         /\ jobs[j].sequence_end = PyInt(jobs[j].output[Len(jobs[j].output)])
         /\ (j = Len(jobs) /\ loop.pc = "idle") =>
              customer.last_sequence_number
                = jobs[j].output[Len(jobs[j].output)]
  /\ \A i \in Completed : \A j \in Completed :
       (i # j /\ jobs[i].mailer_id = jobs[j].mailer_id)
         => Used(i) \cap Used(j) = {}

----------------------------------------------------------------------------
(* C30 *)

\* C30: the statistics of MultiAPIValidator are conserved: after any
\* sequence of completed validate_address calls (fallback enabled or not,
\* each provider succeeding, returning an error status or raising,
\* reset_stats possibly called between calls), total_requests equals
\* primary_success + fallback_success + total_failures; and the fallback
\* provider is called only in a call where the primary provider did not
\* return SUCCESS.
C30_StatsConserved ==
  /\ mav.pc = "idle" =>
       mav.stats.total_requests
         = mav.stats.primary_success + mav.stats.fallback_success
             + mav.stats.total_failures
  /\ (mav.pc = "fallback" \/ (mav.pc = "idle" /\ mav.fallback # "none"))
       => mav.primary \in {"ERROR", "raise"}

\* a reset, then one call answered by the primary provider, one by the
\* fallback provider and one that both providers failed
C30_Witness ==
  /\ mav.pc = "idle"
  /\ mav.stats.primary_success = 1
  /\ mav.stats.fallback_success = 1
  /\ mav.stats.total_failures = 1
  /\ mav.stats.fallback_failures = 1
  /\ mav.stats.total_requests = 3

====
